---- MODULE Spec2Model ----
(***************************************************************************)
(* A model of the Factorio seed image analyser: analyser.py (OrePatch,     *)
(* MapAnalyser), analyser_factorio_coordinate_wrapper.py and               *)
(* image_analyser_pool.py (ImageAnalyserPool).                             *)
(*                                                                         *)
(* Arrays are functions over <<y, x>> index pairs (numpy's row-major       *)
(* indexing, shape = <<height, width>>); contour points are <<x, y>>       *)
(* pairs, as cv2.findContours returns them.                                *)
(***************************************************************************)
EXTENDS Integers, Sequences, FiniteSets, TLC

VARIABLES
    image,               \* the decoded raster: <<y, x>> -> colour
    dimensions,          \* MapAnalyser.dimensions = <<height, width>>
    tiles_per_pixel,     \* scale of the coordinate wrapper
    ore_patch_combined,  \* MapAnalyser.ore_patch_combined: key -> OrePatch
    ore_patches,         \* MapAnalyser.ore_patches: key -> sequence of OrePatch
    contours,            \* what cv2.findContours returns for every patch's mask
    _contour,            \* OrePatch._contour of every patch object (handle -> value)
    _center_point,       \* OrePatch._center_point of every patch object
    calls,               \* how many queries were made on the analyser
    call,                \* the last query made and its arguments
    result,              \* what that query returned or raised
    _tasks_parameters,   \* ImageAnalyserPool._tasks_parameters: the tasks, numbered
    _tasks_results,      \* ImageAnalyserPool._tasks_results
    _max_workers,        \* ImageAnalyserPool._max_workers
    callback,            \* what callback_analyser_function returns for each task
    multiprocess,        \* the argument of analyse
    analyses,            \* how many times analyse was called
    pc,                  \* where analyse is: idle, submit, collect, sequential, done, raised
    futures,             \* analyse's futures: the state of each submitted task
    progress,            \* the tasks in the order their done callbacks ran
    collected            \* how many tasks the loop over the results has passed

pool == <<_tasks_parameters, _tasks_results, _max_workers, callback, multiprocess,
          analyses, pc, futures, progress, collected>>

vars == <<image, dimensions, tiles_per_pixel, ore_patch_combined, ore_patches,
          contours, _contour, _center_point, calls, call, result, pool>>

analyser == <<image, dimensions, tiles_per_pixel, ore_patch_combined, ore_patches,
              contours>>

(***************************************************************************)
(* Bounds of the model.                                                    *)
(***************************************************************************)
MaxSide == 5           \* canvases are squares of 1 .. MaxSide pixels a side
MaxLayers == 3         \* an image has at most MaxLayers concentric layers
MaxMargin == 1         \* query regions trim 0 .. MaxMargin pixels off each axis
MaxCalls == 1          \* queries made on a fresh analyser
MaxSessionCalls == 2   \* queries made on one analyser in a session
MaxStrip == 4          \* strip images are 1 pixel high and 1 .. MaxStrip wide
MaxThickness == 3      \* corridors are 1 .. MaxThickness pixels thick
MaxTolerance == 1      \* and may miss 0 .. MaxTolerance pixels
MaxTileSide == 3       \* canvases behind a wrapper are squares of 1 .. MaxTileSide
MaxTasks == 3          \* a pool holds at most MaxTasks images
MaxWorkers == 2        \* and runs at most MaxWorkers processes
MaxAnalyses == 2       \* analyse is called at most MaxAnalyses times on a pool
LargeSide == 16        \* the side of the large canvases
MaxCoordinate == 2     \* contour points given directly have coordinates 0 .. MaxCoordinate
MaxPoints == 2         \* and come 1 .. MaxPoints to a contour

\* main.py's tiles_pre_pixel
TilesPerPixel == 8

\* the largest value of the dtype of the masks (np.uint8)
UINT8_MAX == 255

(***************************************************************************)
(* The colour table (main.py's resource_colors, cut down to two types with *)
(* pairwise distinct colours; colour 0 is any colour not in the table).    *)
(***************************************************************************)
resource_types == <<"iron", "copper">>
ResourceTypes == {resource_types[i] : i \in DOMAIN resource_types}
Keys == ResourceTypes \cup {"all"}
resource_colors == [t \in ResourceTypes |-> IF t = "iron" THEN 1 ELSE 2]
Colours == {0} \cup {resource_colors[t] : t \in ResourceTypes}

\* an unset lazy attribute is the empty set, a set one the singleton of its value
None == {}
Some(v) == {v}
ValueOf(optional) == CHOOSE v \in optional : TRUE

(***************************************************************************)
(* numpy helpers.                                                          *)
(***************************************************************************)
Indices(dims) == (0 .. dims[1] - 1) \X (0 .. dims[2] - 1)

Max(a, b) == IF a >= b THEN a ELSE b
Min(a, b) == IF a <= b THEN a ELSE b
Abs(a) == IF a >= 0 THEN a ELSE -a

\* sum of arr[<<y, x>>] for x in x0 .. x0 + n - 1
RECURSIVE RowSum(_, _, _, _)
RowSum(arr, y, x0, n) ==
    IF n <= 0 THEN 0 ELSE arr[<<y, x0>>] + RowSum(arr, y, x0 + 1, n - 1)

\* sum of arr over rows y0 .. y0 + m - 1 and columns x0 .. x0 + n - 1
RECURSIVE BoxSum(_, _, _, _, _)
BoxSum(arr, y0, x0, m, n) ==
    IF m <= 0 THEN 0
    ELSE RowSum(arr, y0, x0, n) + BoxSum(arr, y0 + 1, x0, m - 1, n)

\* a Python slice start:end of an axis of length len, as the set of indices
\* it selects (negative bounds count from the end, everything is clamped)
SliceBound(b, len) == IF b < 0 THEN Max(b + len, 0) ELSE Min(b, len)
Slice(start, end, len) == SliceBound(start, len) .. (SliceBound(end, len) - 1)

\* np.sum(arr), row by row
NpSum(arr) ==
    BoxSum(arr, 0, 0, Cardinality({p[1] : p \in DOMAIN arr}),
           Cardinality({p[2] : p \in DOMAIN arr}))

RegionIndices(dims, start_x, start_y, end_x, end_y) ==
    Slice(start_y, end_y, dims[1]) \X Slice(start_x, end_x, dims[2])

(***************************************************************************)
(* OrePatch.__init__                                                       *)
(***************************************************************************)
OrePatch(resource_array, resource_type) ==
    [resource_array |-> resource_array,
     resource_type  |-> resource_type,
     size           |-> NpSum(resource_array)]

(***************************************************************************)
(* _create_all_combined_ore_patches                                        *)
(***************************************************************************)
\* a variant without the division: cv2.inRange marks a match with 255
InRangeUndivided(img, colour) == [p \in DOMAIN img |-> IF img[p] = colour THEN UINT8_MAX ELSE 0]

\* cv2.inRange(image, c, c) // 255
InRange(img, colour) == [p \in DOMAIN img |-> IF img[p] = colour THEN 1 ELSE 0]

RECURSIVE AllResourceArray(_, _)
AllResourceArray(img, n) ==
    IF n = 0 THEN [p \in DOMAIN img |-> 0]
    ELSE LET rest == AllResourceArray(img, n - 1)
             mine == InRange(img, resource_colors[resource_types[n]])
         IN [p \in DOMAIN img |-> (rest[p] + mine[p]) % 256]

CreateAllCombinedOrePatches(img) ==
    [k \in Keys |->
        IF k = "all"
        THEN OrePatch(AllResourceArray(img, Len(resource_types)), "all")
        ELSE OrePatch(InRange(img, resource_colors[k]), k)]

(***************************************************************************)
(* cv2.connectedComponents (8-connectivity, the default): the components   *)
(* of the non-zero pixels, numbered in raster order of their first pixel.  *)
(***************************************************************************)
Neighbours8(p) ==
    {<<p[1] + dy, p[2] + dx>> : dy \in {0 - 1, 0, 1}, dx \in {0 - 1, 0, 1}} \ {p}
Neighbours4(p) ==
    {<<p[1] - 1, p[2]>>, <<p[1] + 1, p[2]>>, <<p[1], p[2] - 1>>, <<p[1], p[2] + 1>>}

\* the pixels of FG that are 8-connected to the set S: S grown from its
\* latest additions (the frontier) until nothing is added
RECURSIVE Grow8(_, _, _)
Grow8(S, frontier, FG) ==
    LET N == (UNION {Neighbours8(p) : p \in frontier} \cap FG) \ S
    IN IF N = {} THEN S ELSE Grow8(S \cup N, N, FG)

RasterFirst(S) ==
    CHOOSE p \in S : \A q \in S : p[1] < q[1] \/ (p[1] = q[1] /\ p[2] <= q[2])

RECURSIVE ComponentsOf(_)
ComponentsOf(FG) ==
    IF FG = {} THEN <<>>
    ELSE LET c == Grow8({RasterFirst(FG)}, {RasterFirst(FG)}, FG)
         IN <<c>> \o ComponentsOf(FG \ c)

ConnectedComponents(arr) == ComponentsOf({p \in DOMAIN arr : arr[p] # 0})

(***************************************************************************)
(* _find_all_ore_patches                                                   *)
(***************************************************************************)
\* a variant that starts at label 2: range(2, num_of_labels)
PatchesOfTypeFromLabelTwo(combined, t) ==
    LET comps == ConnectedComponents(combined[t].resource_array)
    IN [i \in 1 .. Len(comps) - 1 |->
           OrePatch([p \in DOMAIN combined[t].resource_array |->
                        IF p \in comps[i + 1] THEN 1 ELSE 0], t)]

PatchesOfType(combined, t) ==
    LET comps == ConnectedComponents(combined[t].resource_array)
    IN [i \in DOMAIN comps |->
           OrePatch([p \in DOMAIN combined[t].resource_array |->
                        IF p \in comps[i] THEN 1 ELSE 0], t)]

RECURSIVE AllPatches(_, _)
AllPatches(per_type, n) ==
    IF n = 0 THEN <<>>
    ELSE AllPatches(per_type, n - 1) \o per_type[resource_types[n]]

\* a variant that labels the components of the mask of "all" for the list "all"
FindAllOrePatchesOfAllMask(combined) ==
    [k \in Keys |-> PatchesOfType(combined, k)]

FindAllOrePatches(combined) ==
    LET per_type == [t \in ResourceTypes |-> PatchesOfType(combined, t)]
    IN [k \in Keys |->
           IF k = "all" THEN AllPatches(per_type, Len(resource_types))
           ELSE per_type[k]]

(***************************************************************************)
(* OrePatch.contour: cv2.findContours(resource_array, RETR_EXTERNAL,       *)
(* CHAIN_APPROX_NONE).  The outer border of a component is the set of its  *)
(* pixels that have a 4-neighbour in the background connected to the frame *)
(* around the array; RETR_EXTERNAL reports only the components that are    *)
(* not enclosed in a hole of another one.  The order of the points of a    *)
(* contour does not matter to any query, so a contour is a set of points.  *)
(***************************************************************************)
Padded(arr, dims) ==
    {p \in (-1 .. dims[1]) \X (-1 .. dims[2]) : p \notin DOMAIN arr \/ arr[p] = 0}

RECURSIVE Grow4(_, _, _)
Grow4(S, frontier, BG) ==
    LET N == (UNION {Neighbours4(p) : p \in frontier} \cap BG) \ S
    IN IF N = {} THEN S ELSE Grow4(S \cup N, N, BG)

\* the background reachable from outside the array
Outside(arr, dims) == Grow4({<<-1, -1>>}, {<<-1, -1>>}, Padded(arr, dims))

OuterBorder(comp, outside) ==
    {<<p[2], p[1]>> : p \in {q \in comp : Neighbours4(q) \cap outside # {}}}

\* the contours cv2.findContours returns, one per top-level component
FindContours(arr, dims) ==
    LET comps   == ConnectedComponents(arr)
        outside == Outside(arr, dims)
    IN {OuterBorder(comps[i], outside) : i \in DOMAIN comps} \ {{}}

(***************************************************************************)
(* Handles of the OrePatch objects of one analyser.                        *)
(***************************************************************************)
PatchHandles == {<<"patch", i>> : i \in 1 .. Len(ore_patches["all"])}
CombinedHandles == {<<"combined", k>> : k \in Keys}
Handles == PatchHandles \cup CombinedHandles

PatchOf(h) ==
    IF h[1] = "patch" THEN ore_patches["all"][h[2]] ELSE ore_patch_combined[h[2]]

(***************************************************************************)
(* Results of a query.                                                     *)
(***************************************************************************)
\* the float  times * sqrt(sqrt_of)
Float(sqrt_of, times) == [kind |-> "float", sqrt_of |-> sqrt_of, times |-> times]
Infinity == [kind |-> "inf"]
Raised(exception) == [kind |-> "raise", exception |-> exception]
NoResult == [kind |-> "none"]

\* a variant that scales a distance as an area is scaled
ScaledTwice(r, factor) ==
    IF r.kind = "float" THEN Float(r.sqrt_of, r.times * factor * factor) ELSE r

\* float * int, as the wrapper scales a distance
Scaled(r, factor) ==
    IF r.kind = "float" THEN Float(r.sqrt_of, r.times * factor) ELSE r

(***************************************************************************)
(* MapAnalyser._calculate_min_distance_between_contours                    *)
(***************************************************************************)
\* a variant that decrements every delta: diff -= 1
ReducedEvenIfZero(delta) == Abs(delta) - 1

Reduced(delta) == IF Abs(delta) > 0 THEN Abs(delta) - 1 ELSE Abs(delta)

DistanceSq(p, q) ==
    Reduced(q[1] - p[1]) * Reduced(q[1] - p[1])
    + Reduced(q[2] - p[2]) * Reduced(q[2] - p[2])

SetMin(S) == CHOOSE m \in S : \A n \in S : m <= n

\* an empty contour makes the matrices empty: numpy raises ValueError
CalculateMinDistanceBetweenContours(contour, other_contour) ==
    IF contour = {} \/ other_contour = {}
    THEN Raised("ValueError")
    ELSE Float(SetMin({DistanceSq(p, q) : p \in contour, q \in other_contour}), 1)

(***************************************************************************)
(* The contour getter: computed on the first access and cached.  With no   *)
(* contour at all, contours[0] raises IndexError.  Which contour comes     *)
(* first in cv2's list is not specified: any of them.  The masks never     *)
(* change, so what cv2.findContours finds for each is tabulated once, in   *)
(* the variable contours.                                                  *)
(***************************************************************************)
ContourChoices(h, cache) ==
    IF cache[h] # None THEN cache[h] ELSE contours[h]

\* OrePatch.contour: the contour found at the first access and kept, or
\* IndexError (contours[0] of no contour at all)
Contour(points) == [kind |-> "contour", points |-> points]

ContourOutcomes(h, cache) ==
    IF ContourChoices(h, cache) = {}
    THEN {[cache |-> cache, result |-> Raised("IndexError")]}
    ELSE {[cache |-> [cache EXCEPT ![h] = Some(c)], result |-> Contour(c)] :
             c \in ContourChoices(h, cache)}

(***************************************************************************)
(* OrePatch.center_point: cv2.moments of the mask, m10 / m00 and           *)
(* m01 / m00; a point is kept as its numerators over the denominator.      *)
(***************************************************************************)
RECURSIVE Moment10(_, _, _)
Moment10(arr, dims, x) ==
    IF x < 0 THEN 0
    ELSE x * BoxSum(arr, 0, x, dims[1], 1) + Moment10(arr, dims, x - 1)

RECURSIVE Moment01(_, _, _)
Moment01(arr, dims, y) ==
    IF y < 0 THEN 0
    ELSE y * RowSum(arr, y, 0, dims[2]) + Moment01(arr, dims, y - 1)

Point(x_times, y_times, over) ==
    [kind |-> "point", x_times |-> x_times, y_times |-> y_times, over |-> over]

\* a variant that divides without looking: 0 / 0 is kept as a point
CenterPointOfUnchecked(arr, dims) ==
    Point(Moment10(arr, dims, dims[2] - 1), Moment01(arr, dims, dims[1] - 1), NpSum(arr))

\* moments["m10"] / moments["m00"], moments["m01"] / moments["m00"]: Python
\* raises ZeroDivisionError when m00 is 0.0
CenterPointOf(arr, dims) ==
    IF NpSum(arr) = 0 THEN Raised("ZeroDivisionError")
    ELSE Point(Moment10(arr, dims, dims[2] - 1), Moment01(arr, dims, dims[1] - 1), NpSum(arr))

\* the property: computed at the first access and kept; an exception leaves
\* _center_point as it was
CenterPointOutcome(h, cache) ==
    IF cache[h] # None THEN [cache |-> cache, result |-> ValueOf(cache[h])]
    ELSE LET computed == CenterPointOf(PatchOf(h).resource_array, dimensions)
         IN IF computed.kind = "raise" THEN [cache |-> cache, result |-> computed]
            ELSE [cache |-> [cache EXCEPT ![h] = Some(computed)], result |-> computed]

(***************************************************************************)
(* MapAnalyser.calculate_min_distance_between_patches: the outcomes        *)
(* (contour caches afterwards, value returned or exception raised).        *)
(***************************************************************************)
Outcome(cache, res) == [cache |-> cache, result |-> res]

MinDistanceOutcomes(a, b, cache) ==
    LET ca == ContourChoices(a, cache)
    IN IF ca = {} THEN {Outcome(cache, Raised("IndexError"))}
       ELSE UNION {
           LET cache1 == [cache EXCEPT ![a] = Some(c1)]
               cb     == ContourChoices(b, cache1)
           IN IF cb = {} THEN {Outcome(cache1, Raised("IndexError"))}
              ELSE {Outcome([cache1 EXCEPT ![b] = Some(c2)],
                            CalculateMinDistanceBetweenContours(c1, c2)) : c2 \in cb}
           : c1 \in ca}

(***************************************************************************)
(* MapAnalyser.calculate_min_distance_between_patches_within_region        *)
(***************************************************************************)
\* a variant that looks at the whole array: np.amax(arr)
AmaxOfWholeArray(arr, region) == SetMin({0 - arr[p] : p \in DOMAIN arr}) * (0 - 1)

\* np.amax(arr[start_y:end_y, start_x:end_x]) of a non-empty region
Amax(arr, region) == SetMin({0 - arr[p] : p \in region}) * (0 - 1)

\* contour_x[start > contour_x] = -1; contour_x[contour_x >= end] = -1
MarkForRemoval(v, start, end) ==
    LET w == IF start > v THEN 0 - 1 ELSE v
    IN IF w >= end THEN 0 - 1 ELSE w

\* contour_x and contour_y are views of the cached contour: marking them
\* writes into patch._contour itself
MarkedContour(contour, start_x, start_y, end_x, end_y) ==
    {<<MarkForRemoval(p[1], start_x, end_x), MarkForRemoval(p[2], start_y, end_y)>>
        : p \in contour}

\* patch.contour[condition]
ContourWithinRegion(marked) == {p \in marked : p[1] + 1 # 0 /\ p[2] + 1 # 0}

WithinRegionOutcomes(a, b, start_x, start_y, end_x, end_y, cache) ==
    LET region == RegionIndices(dimensions, start_x, start_y, end_x, end_y)
    IN IF region = {} THEN {Outcome(cache, Raised("ValueError"))}
       ELSE IF Amax(PatchOf(a).resource_array, region) = 0
               \/ Amax(PatchOf(b).resource_array, region) = 0
       THEN {Outcome(cache, Infinity)}
       ELSE UNION {
           LET m1     == MarkedContour(c1, start_x, start_y, end_x, end_y)
               cache1 == [cache EXCEPT ![a] = Some(m1)]
           IN {LET m2 == MarkedContour(c2, start_x, start_y, end_x, end_y)
               IN Outcome([cache1 EXCEPT ![b] = Some(m2)],
                          CalculateMinDistanceBetweenContours(
                              ContourWithinRegion(m1), ContourWithinRegion(m2)))
               : c2 \in ContourChoices(b, cache1)}
           : c1 \in ContourChoices(a, cache)}

(***************************************************************************)
(* MapAnalyser.count_resources_in_region and                               *)
(* MapAnalyser.get_ore_patches_partially_in_region                         *)
(***************************************************************************)
Count(n) == [kind |-> "int", value |-> n]
Patches(by_type) == [kind |-> "patches", patches |-> by_type]

\* a variant that takes the end of the region for its size
SumInRegionEndAsSize(arr, dims, start_x, start_y, end_x, end_y) ==
    BoxSum(arr, SliceBound(start_y, dims[1]), SliceBound(start_x, dims[2]),
           Cardinality(Slice(start_y, start_y + end_y, dims[1])),
           Cardinality(Slice(start_x, start_x + end_x, dims[2])))

\* np.sum(arr[start_y:end_y, start_x:end_x])
SumInRegion(arr, dims, start_x, start_y, end_x, end_y) ==
    BoxSum(arr, SliceBound(start_y, dims[1]), SliceBound(start_x, dims[2]),
           Cardinality(Slice(start_y, end_y, dims[1])),
           Cardinality(Slice(start_x, end_x, dims[2])))

CountResourcesInRegion(start_x, start_y, end_x, end_y, resource_type) ==
    Count(SumInRegion(ore_patch_combined[resource_type].resource_array, dimensions,
                      start_x, start_y, end_x, end_y))

\* a variant without the continue: the patches of ore_patches["all"] are
\* walked as well and each is appended to "all" twice
GetOrePatchesPartiallyInRegionWalkingAll(start_x, start_y, end_x, end_y) ==
    LET InRegion(ore_patch) ==
            SumInRegion(ore_patch.resource_array, dimensions,
                        start_x, start_y, end_x, end_y) # 0
        filtered == [t \in ResourceTypes |-> SelectSeq(ore_patches[t], InRegion)]
        Twice(patches) == [i \in 1 .. 2 * Len(patches) |-> patches[(i + 1) \div 2]]
    IN Patches([k \in Keys |->
                   IF k = "all"
                   THEN Twice(SelectSeq(ore_patches["all"], InRegion))
                            \o AllPatches(filtered, Len(resource_types))
                   ELSE filtered[k]])

\* the patches of each type with a pixel in the region, in the order of
\* ore_patches; "all" collects them type after type
GetOrePatchesPartiallyInRegion(start_x, start_y, end_x, end_y) ==
    LET InRegion(ore_patch) ==
            SumInRegion(ore_patch.resource_array, dimensions,
                        start_x, start_y, end_x, end_y) # 0
        filtered == [t \in ResourceTypes |-> SelectSeq(ore_patches[t], InRegion)]
    IN Patches([k \in Keys |->
                   IF k = "all" THEN AllPatches(filtered, Len(resource_types))
                   ELSE filtered[k]])

(***************************************************************************)
(* MapAnalyser.find_longest_consecutive_line_of_resources                  *)
(***************************************************************************)
\* arr[start_y:end_y, start_x:end_x]: a view of arr, indexed from 0 again
SubArray(arr, dims, start_x, start_y, end_x, end_y) ==
    [array |-> arr,
     y0    |-> SliceBound(start_y, dims[1]),
     x0    |-> SliceBound(start_x, dims[2]),
     h     |-> Cardinality(Slice(start_y, end_y, dims[1])),
     w     |-> Cardinality(Slice(start_x, end_x, dims[2]))]

ViewPixel(src, y, x) == src.array[<<y + src.y0, x + src.x0>>]

\* cv2.borderInterpolate(p, len, BORDER_REFLECT_101)
RECURSIVE BorderReflect101(_, _)
BorderReflect101(p, len) ==
    IF len = 1 THEN 0
    ELSE IF p < 0 THEN BorderReflect101(0 - p, len)
    ELSE IF p >= len THEN BorderReflect101(2 * len - 2 - p, len)
    ELSE p

\* a pixel of src as filter2D reads it: beyond the array, mirrored under
\* BORDER_REFLECT_101 (cv2's default) and 0 under BORDER_CONSTANT
BorderPixel(src, y, x, border) ==
    IF y < src.h /\ x < src.w THEN ViewPixel(src, y, x)
    ELSE IF border = "BORDER_CONSTANT" THEN 0
    ELSE ViewPixel(src, BorderReflect101(y, src.h), BorderReflect101(x, src.w))

RECURSIVE KernelRowSum(_, _, _, _, _)
KernelRowSum(src, y, x, n, border) ==
    IF n <= 0 THEN 0
    ELSE BorderPixel(src, y, x, border) + KernelRowSum(src, y, x + 1, n - 1, border)

RECURSIVE KernelSum(_, _, _, _, _, _)
KernelSum(src, y, x, m, n, border) ==
    IF m <= 0 THEN 0
    ELSE KernelRowSum(src, y, x, n, border)
         + KernelSum(src, y + 1, x, m - 1, n, border)

\* the destination has the depth of the source (ddepth = -1): uint8, saturated
SaturateUint8(v) == IF v > UINT8_MAX THEN UINT8_MAX ELSE v

\* cv2.filter2D(src, -1, np.ones((kernel_h, kernel_w)), anchor=(0, 0), border)
\* cut to [0:rows_end, 0:cols_end]
Filter2D(src, kernel_h, kernel_w, border, rows_end, cols_end) ==
    [p \in Slice(0, rows_end, src.h) \X Slice(0, cols_end, src.w) |->
        SaturateUint8(KernelSum(src, p[1], p[2], kernel_h, kernel_w, border))]

NpAmax(dst) == SetMin({0 - dst[p] : p \in DOMAIN dst}) * (0 - 1)

\* np.where(dst == v): the first position in row-major order, as <<x, y>>
FirstWhere(dst, v) ==
    LET p == RasterFirst({q \in DOMAIN dst : dst[q] = v}) IN <<p[2], p[1]>>

Line(length, region) == [kind |-> "line", length |-> length, region |-> region]

\* one pass of the while loop and the passes after it
RECURSIVE ShrinkAndSearch(_, _, _, _, _, _, _, _)
ShrinkAndSearch(src, x_length, y_length, thickness, tolerance, init_start_x, init_start_y, max_length) ==
    IF max_length < 0 THEN Raised("ValueError")       \* np.ones: negative dimension
    ELSE IF max_length = 0 \/ src.h = 0 \/ src.w = 0 THEN Raised("cv2.error")
    ELSE
    LET dst_horizontal == Filter2D(src, thickness, max_length, "BORDER_REFLECT_101",
                                   y_length - thickness + 1, x_length - max_length + 1)
        dst_vertical   == Filter2D(src, max_length, thickness, "BORDER_CONSTANT",
                                   y_length - max_length + 1, x_length - thickness + 1)
    IN IF DOMAIN dst_horizontal = {} \/ DOMAIN dst_vertical = {}
       THEN Raised("ValueError")                      \* np.amax of an empty array
       ELSE
       LET area_with_resources_horizontal == NpAmax(dst_horizontal)
           area_with_resources_vertical   == NpAmax(dst_vertical)
           is_vertically_orientated ==
               area_with_resources_horizontal < area_with_resources_vertical
           dst == IF is_vertically_orientated THEN dst_vertical ELSE dst_horizontal
           area_with_resources ==
               IF is_vertically_orientated THEN area_with_resources_vertical
               ELSE area_with_resources_horizontal
       IN IF area_with_resources + tolerance < max_length * thickness
          THEN ShrinkAndSearch(src, x_length, y_length, thickness, tolerance,
                               init_start_x, init_start_y,
                               (area_with_resources + tolerance) \div thickness)
          ELSE LET at == FirstWhere(dst, area_with_resources)
                   x  == at[1] + init_start_x
                   y  == at[2] + init_start_y
               IN IF is_vertically_orientated
                  THEN Line(max_length, <<x, y, x + thickness, y + max_length>>)
                  ELSE Line(max_length, <<x, y, x + max_length, y + thickness>>)

\* area_with_resources of one pass of the loop, None when the pass raises
AreaWithResources(src, x_length, y_length, thickness, max_length) ==
    IF max_length <= 0 \/ src.h = 0 \/ src.w = 0 THEN None
    ELSE LET dst_horizontal == Filter2D(src, thickness, max_length, "BORDER_REFLECT_101",
                                        y_length - thickness + 1, x_length - max_length + 1)
             dst_vertical   == Filter2D(src, max_length, thickness, "BORDER_CONSTANT",
                                        y_length - max_length + 1, x_length - thickness + 1)
         IN IF DOMAIN dst_horizontal = {} \/ DOMAIN dst_vertical = {} THEN None
            ELSE Some(Max(NpAmax(dst_horizontal), NpAmax(dst_vertical)))

\* the values of max_length at the start of the passes of the loop, in turn
RECURSIVE CandidateLengths(_, _, _, _, _, _)
CandidateLengths(src, x_length, y_length, thickness, tolerance, max_length) ==
    LET area == AreaWithResources(src, x_length, y_length, thickness, max_length)
    IN IF area # None /\ ValueOf(area) + tolerance < max_length * thickness
       THEN <<max_length>> \o CandidateLengths(src, x_length, y_length, thickness, tolerance,
                                               (ValueOf(area) + tolerance) \div thickness)
       ELSE <<max_length>>

FindLongestConsecutiveLineOfResources(resource_type, thickness, tolerance, init_start_x, init_start_y, init_end_x, init_end_y) ==
    LET arr == ore_patch_combined[resource_type].resource_array
        src == SubArray(arr, dimensions, init_start_x, init_start_y,
                        init_end_x, init_end_y)
        x_length == init_end_x - init_start_x
        y_length == init_end_y - init_start_y
    IN ShrinkAndSearch(src, x_length, y_length, thickness, tolerance,
                       init_start_x, init_start_y, Max(x_length, y_length))

(***************************************************************************)
(* MapAnalyserFactorioCoordinateWrapper: bounds and region conversion.     *)
(***************************************************************************)
min_x == ((0 - dimensions[2]) \div 2) * tiles_per_pixel
min_y == ((0 - dimensions[1]) \div 2) * tiles_per_pixel
max_x == (dimensions[2] \div 2) * tiles_per_pixel
max_y == (dimensions[1] \div 2) * tiles_per_pixel

\* a variant that rounds the end down as it does the start
CoordinateRegionToPixelRegionRoundingDown(start_x, start_y, end_x, end_y) ==
    <<(start_x - min_x) \div tiles_per_pixel,
      (start_y - min_y) \div tiles_per_pixel,
      (end_x - min_x) \div tiles_per_pixel,
      (end_y - min_y) \div tiles_per_pixel>>

CoordinateRegionToPixelRegion(start_x, start_y, end_x, end_y) ==
    <<(start_x - min_x) \div tiles_per_pixel,
      (start_y - min_y) \div tiles_per_pixel,
      0 - (((0 - end_x) + min_x) \div tiles_per_pixel),
      0 - (((0 - end_y) + min_y) \div tiles_per_pixel)>>

\* a variant that offsets x by min_y and y by min_x
PixelRegionToCoordinateRegionSwappedBounds(start_x, start_y, end_x, end_y) ==
    <<start_x * tiles_per_pixel + min_y,
      start_y * tiles_per_pixel + min_x,
      end_x * tiles_per_pixel + min_y,
      end_y * tiles_per_pixel + min_x>>

PixelRegionToCoordinateRegion(start_x, start_y, end_x, end_y) ==
    <<start_x * tiles_per_pixel + min_x,
      start_y * tiles_per_pixel + min_y,
      end_x * tiles_per_pixel + min_x,
      end_y * tiles_per_pixel + min_y>>

\* OrePatchCoordinateWrapper: the patch and its size in tiles
OrePatchCoordinateWrapper(ore_patch) ==
    [wrapped_ore_patch |-> ore_patch,
     resource_type     |-> ore_patch.resource_type,
     size              |-> ore_patch.size * tiles_per_pixel * tiles_per_pixel]

\* MapAnalyserFactorioCoordinateWrapper.count_resources_in_region
WrapperCountResourcesInRegion(start_x, start_y, end_x, end_y, resource_type) ==
    LET px == CoordinateRegionToPixelRegion(start_x, start_y, end_x, end_y)
        area_px == CountResourcesInRegion(px[1], px[2], px[3], px[4], resource_type)
    IN Count(tiles_per_pixel * tiles_per_pixel * area_px.value)

\* MapAnalyserFactorioCoordinateWrapper.get_ore_patches_partially_in_region
WrapperGetOrePatchesPartiallyInRegion(start_x, start_y, end_x, end_y) ==
    LET px == CoordinateRegionToPixelRegion(start_x, start_y, end_x, end_y)
        found == GetOrePatchesPartiallyInRegion(px[1], px[2], px[3], px[4])
    IN Patches([k \in Keys |->
                   [i \in DOMAIN found.patches[k] |->
                       OrePatchCoordinateWrapper(found.patches[k][i])]])

\* math.ceil(a / b) of integers, b > 0
MathCeil(a, b) == 0 - ((0 - a) \div b)

\* an argument that is an integer or None: Some(v) or None
OrDefault(optional, default) == IF optional = None THEN default ELSE ValueOf(optional)

\* Python's None where a region is expected
NoRegion == <<>>

\* MapAnalyserFactorioCoordinateWrapper.find_longest_consecutive_line_of_resources
WrapperFindLongestConsecutiveLineOfResources(resource_type, thickness, tolerance, start_x, start_y, end_x, end_y) ==
    IF thickness # None /\ ValueOf(thickness) <= 0 THEN Raised("IndexError")
    ELSE
    LET thickness_tiles == OrDefault(thickness, tiles_per_pixel)
        px == CoordinateRegionToPixelRegion(OrDefault(start_x, min_x), OrDefault(start_y, min_y),
                                            OrDefault(end_x, max_x), OrDefault(end_y, max_y))
        found == FindLongestConsecutiveLineOfResources(
                     resource_type,
                     MathCeil(thickness_tiles, tiles_per_pixel),
                     MathCeil(tolerance, tiles_per_pixel * tiles_per_pixel),
                     px[1], px[2], px[3], px[4])
    IN IF found.kind # "line" THEN found             \* the exception propagates
       ELSE IF found.region = NoRegion THEN Line(0, NoRegion)
       ELSE Line(found.length * tiles_per_pixel,
                 PixelRegionToCoordinateRegion(found.region[1], found.region[2],
                                               found.region[3], found.region[4]))

(***************************************************************************)
(* The inputs: images of concentric layers (a frame of one colour around a *)
(* frame of another around a core), and regions that trim a margin off the *)
(* full image.                                                             *)
(***************************************************************************)
Inset(p, dims) ==
    Min(Min(p[1], p[2]), Min(dims[1] - 1 - p[1], dims[2] - 1 - p[2]))

ConcentricImage(dims, layers) ==
    [p \in Indices(dims) |-> layers[Min(Inset(p, dims), MaxLayers - 1) + 1]]

FullRegion == <<0, 0, dimensions[2], dimensions[1]>>

Regions ==
    {<<mx, my, dimensions[2] - mx, dimensions[1] - my>> :
        mx \in 0 .. MaxMargin, my \in 0 .. MaxMargin}

TileRegions == {PixelRegionToCoordinateRegion(r[1], r[2], r[3], r[4]) : r \in Regions}

\* the scales of the analysers behind a wrapper
Scales == {1, 2, TilesPerPixel}

\* regions in tiles that need not align with pixels: the bounds of the image
\* with a margin of -1 (out of bounds), 0, 1 or one pixel of tiles trimmed off
TileMargins == {0 - 1, 0, 1, tiles_per_pixel}

TileRegionInputs ==
    {<<min_x + a, min_y + b, max_x - c, max_y - d>> : a, b, c, d \in TileMargins}

\* regions in pixels with corners up to one pixel beyond the image
PixelRegionInputs ==
    {<<x0, y0, x1, y1>> : x0 \in 0 - 1 .. dimensions[2] + 1, y0 \in 0 - 1 .. dimensions[1] + 1,
                          x1 \in 0 - 1 .. dimensions[2] + 1, y1 \in 0 - 1 .. dimensions[1] + 1}

\* the same with one margin for both axes at the start and one at the end
TileSquareInputs ==
    {<<min_x + a, min_y + a, max_x - c, max_y - c>> : a, c \in TileMargins}

\* thicknesses in tiles: the default, an invalid one, and up to two pixels
TileThicknesses ==
    {None} \cup {Some(k) : k \in {0, 1, tiles_per_pixel, tiles_per_pixel + 1}}

\* tolerances in tiles: none, one tile, one pixel of tiles
TileTolerances == {0, 1, tiles_per_pixel * tiles_per_pixel}

(***************************************************************************)
(* MapAnalyser.__init__                                                    *)
(***************************************************************************)
MapAnalyserInit(img, dims, scale) ==
    /\ image = img
    /\ dimensions = dims
    /\ tiles_per_pixel = scale
    /\ ore_patch_combined = CreateAllCombinedOrePatches(img)
    /\ ore_patches = FindAllOrePatches(ore_patch_combined)
    /\ contours = [h \in Handles |-> FindContours(PatchOf(h).resource_array, dims)]
    /\ _contour = [h \in Handles |-> None]
    /\ _center_point = [h \in Handles |-> None]
    /\ calls = 0
    /\ call = [op |-> "__init__"]
    /\ result = NoResult

\* a strip one pixel high that repeats the colours of layers from left to right
StripImage(dims, layers) == [p \in Indices(dims) |-> layers[(p[2] % MaxLayers) + 1]]

\* ImageAnalyserPool.__init__: no task, no result
ImageAnalyserPoolInit(max_workers) ==
    /\ _tasks_parameters = <<>>
    /\ _tasks_results = <<>>
    /\ _max_workers = max_workers
    /\ multiprocess = TRUE
    /\ analyses = 0
    /\ pc = "idle"
    /\ futures = <<>>
    /\ progress = <<>>
    /\ collected = 0

\* an analyser looked at on its own: the pool it came from stays as it is
NoPool ==
    /\ ImageAnalyserPoolInit(1)
    /\ callback = <<>>

Init ==
    /\ NoPool
    /\ \/ \E n \in 1 .. MaxSide, layers \in [1 .. MaxLayers -> Colours] :
             MapAnalyserInit(ConcentricImage(<<n, n>>, layers), <<n, n>>, TilesPerPixel)
       \/ \E w \in 1 .. MaxStrip, layers \in [1 .. MaxLayers -> Colours] :
             MapAnalyserInit(StripImage(<<1, w>>, layers), <<1, w>>, TilesPerPixel)

InitLarge ==
    /\ NoPool
    /\ \E layers \in [1 .. MaxLayers -> Colours] :
        MapAnalyserInit(ConcentricImage(<<LargeSide, LargeSide>>, layers),
                        <<LargeSide, LargeSide>>, TilesPerPixel)

(***************************************************************************)
(* The queries.  limit bounds the number of queries made on one analyser.  *)
(***************************************************************************)
Query(record, outcome) ==
    /\ calls' = calls + 1
    /\ call' = record
    /\ _contour' = outcome.cache
    /\ result' = outcome.result
    /\ UNCHANGED <<analyser, pool, _center_point>>

CalculateMinDistanceBetweenPatches(limit) ==
    /\ calls < limit
    /\ \E a \in PatchHandles, b \in Handles :
        \E o \in MinDistanceOutcomes(a, b, _contour) :
            Query([op |-> "calculate_min_distance_between_patches", wrapper |-> FALSE,
                   ore_patch |-> a, other_ore_patch |-> b], o)

CalculateMinDistanceBetweenPatchesWithinRegion(limit) ==
    /\ calls < limit
    /\ \E a \in PatchHandles, b \in PatchHandles, r \in Regions :
        \E o \in WithinRegionOutcomes(a, b, r[1], r[2], r[3], r[4], _contour) :
            Query([op |-> "calculate_min_distance_between_patches_within_region",
                   wrapper |-> FALSE, ore_patch |-> a, other_ore_patch |-> b,
                   region |-> r], o)

\* the wrapper's methods: the same calls on the wrapped patches, scaled
WrapperCalculateMinDistanceBetweenPatches(limit) ==
    /\ calls < limit
    /\ \E a \in PatchHandles, b \in Handles :
        \E o \in MinDistanceOutcomes(a, b, _contour) :
            Query([op |-> "calculate_min_distance_between_patches", wrapper |-> TRUE,
                   ore_patch |-> a, other_ore_patch |-> b],
                  Outcome(o.cache, Scaled(o.result, tiles_per_pixel)))

WrapperCalculateMinDistanceBetweenPatchesWithinRegion(limit) ==
    /\ calls < limit
    /\ \E a \in PatchHandles, b \in PatchHandles, t \in TileRegions :
        LET r == CoordinateRegionToPixelRegion(t[1], t[2], t[3], t[4])
        IN \E o \in WithinRegionOutcomes(a, b, r[1], r[2], r[3], r[4], _contour) :
            Query([op |-> "calculate_min_distance_between_patches_within_region",
                   wrapper |-> TRUE, ore_patch |-> a, other_ore_patch |-> b,
                   region |-> t],
                  Outcome(o.cache, Scaled(o.result, tiles_per_pixel)))

\* the corridor search reads the combined masks only
FindLongestConsecutiveLine(limit, thicknesses, regions) ==
    /\ calls < limit
    /\ \E t \in Keys, thickness \in thicknesses, tolerance \in 0 .. MaxTolerance,
          r \in regions :
           Query([op |-> "find_longest_consecutive_line_of_resources",
                  wrapper |-> FALSE, resource_type |-> t, thickness |-> thickness,
                  tolerance |-> tolerance, region |-> r],
                 Outcome(_contour,
                         FindLongestConsecutiveLineOfResources(
                             t, thickness, tolerance, r[1], r[2], r[3], r[4])))

\* the first distance query on a fresh analyser
Next ==
    \/ CalculateMinDistanceBetweenPatches(MaxCalls)
    \/ CalculateMinDistanceBetweenPatchesWithinRegion(MaxCalls)
    \/ WrapperCalculateMinDistanceBetweenPatches(MaxCalls)
    \/ WrapperCalculateMinDistanceBetweenPatchesWithinRegion(MaxCalls)

Spec == Init /\ [][Next]_vars

\* several distance queries on one analyser, one after the other
NextSession ==
    \/ CalculateMinDistanceBetweenPatches(MaxSessionCalls)
    \/ CalculateMinDistanceBetweenPatchesWithinRegion(MaxSessionCalls)
    \/ WrapperCalculateMinDistanceBetweenPatches(MaxSessionCalls)
    \/ WrapperCalculateMinDistanceBetweenPatchesWithinRegion(MaxSessionCalls)

SpecSession == Init /\ [][NextSession]_vars

\* corridor searches on the small images
NextLine == FindLongestConsecutiveLine(MaxCalls, 1 .. MaxThickness, Regions)

SpecLine == Init /\ [][NextLine]_vars

\* corridor searches as thick as the canvas over the whole of a large canvas
NextLarge == FindLongestConsecutiveLine(MaxCalls, {LargeSide}, {FullRegion})

SpecLarge == InitLarge /\ [][NextLarge]_vars

\* the lazy properties of a patch, read directly
PatchAccess(record, contour_cache, center_cache, res) ==
    /\ calls' = calls + 1
    /\ call' = record
    /\ _contour' = contour_cache
    /\ _center_point' = center_cache
    /\ result' = res
    /\ UNCHANGED <<analyser, pool>>

ContourAccess(limit) ==
    /\ calls < limit
    /\ \E h \in Handles :
        \E o \in ContourOutcomes(h, _contour) :
            PatchAccess([op |-> "contour", wrapper |-> FALSE, ore_patch |-> h],
                        o.cache, _center_point, o.result)

CenterPoint(limit) ==
    /\ calls < limit
    /\ \E h \in Handles :
        LET o == CenterPointOutcome(h, _center_point)
        IN PatchAccess([op |-> "center_point", wrapper |-> FALSE, ore_patch |-> h],
                       _contour, o.cache, o.result)

\* OrePatchCoordinateWrapper.center_point: the wrapped patch's centre, moved
\* by -shape // 2 pixels and scaled to tiles
WrapperCenterPointOf(point, dims, scale) ==
    IF point.kind = "raise" THEN point
    ELSE Point((point.x_times + ((0 - dims[2]) \div 2) * point.over) * scale,
               (point.y_times + ((0 - dims[1]) \div 2) * point.over) * scale,
               point.over)

WrapperCenterPoint(limit) ==
    /\ calls < limit
    /\ \E h \in Handles :
        LET o == CenterPointOutcome(h, _center_point)
        IN PatchAccess([op |-> "center_point", wrapper |-> TRUE, ore_patch |-> h],
                       _contour, o.cache,
                       WrapperCenterPointOf(o.result, dimensions, tiles_per_pixel))

\* the centre of a patch read again and again, directly and through a wrapper
NextCentre ==
    \/ CenterPoint(MaxSessionCalls)
    \/ WrapperCenterPoint(MaxSessionCalls)

SpecCentre == Init /\ [][NextCentre]_vars

\* the lazy properties of the patches read between distance queries
NextPatch ==
    \/ ContourAccess(MaxSessionCalls)
    \/ CenterPoint(MaxSessionCalls)
    \/ CalculateMinDistanceBetweenPatches(MaxSessionCalls)
    \/ CalculateMinDistanceBetweenPatchesWithinRegion(MaxSessionCalls)

SpecPatch == Init /\ [][NextPatch]_vars

\* the analysers behind a wrapper, at the scales of Scales
InitWrapper ==
    /\ NoPool
    /\ \E scale \in Scales, layers \in [1 .. MaxLayers -> Colours] :
        \/ \E n \in 1 .. MaxTileSide :
              MapAnalyserInit(ConcentricImage(<<n, n>>, layers), <<n, n>>, scale)
        \/ \E w \in 1 .. MaxStrip :
              MapAnalyserInit(StripImage(<<1, w>>, layers), <<1, w>>, scale)

\* the wrapper's corridor search, over a region in tiles or over the whole
\* image (start and end left at None)
WrapperFindLongestConsecutiveLine(limit) ==
    /\ calls < limit
    /\ \E t \in Keys, thickness \in TileThicknesses, tolerance \in TileTolerances,
          r \in TileSquareInputs \cup {NoRegion} :
         LET arg(i) == IF r = NoRegion THEN None ELSE Some(r[i])
         IN Query([op |-> "find_longest_consecutive_line_of_resources",
                   wrapper |-> TRUE, resource_type |-> t, thickness |-> thickness,
                   tolerance |-> tolerance,
                   region |-> IF r = NoRegion THEN <<min_x, min_y, max_x, max_y>> ELSE r],
                  Outcome(_contour,
                          WrapperFindLongestConsecutiveLineOfResources(
                              t, thickness, tolerance, arg(1), arg(2), arg(3), arg(4))))

WrapperCountResources(limit) ==
    /\ calls < limit
    /\ \E t \in Keys, r \in TileRegionInputs :
         Query([op |-> "count_resources_in_region", wrapper |-> TRUE,
                resource_type |-> t, region |-> r],
               Outcome(_contour, WrapperCountResourcesInRegion(r[1], r[2], r[3], r[4], t)))

WrapperGetOrePatches(limit) ==
    /\ calls < limit
    /\ \E r \in TileRegionInputs :
         Query([op |-> "get_ore_patches_partially_in_region", wrapper |-> TRUE,
                region |-> r],
               Outcome(_contour, WrapperGetOrePatchesPartiallyInRegion(r[1], r[2], r[3], r[4])))

GetOrePatches(limit) ==
    /\ calls < limit
    /\ \E r \in PixelRegionInputs :
         Query([op |-> "get_ore_patches_partially_in_region", wrapper |-> FALSE,
                region |-> r],
               Outcome(_contour, GetOrePatchesPartiallyInRegion(r[1], r[2], r[3], r[4])))

\* the wrapper converts a region
Region(r) == [kind |-> "region", region |-> r]

CoordinateRegionToPixelRegionCall(limit) ==
    /\ calls < limit
    /\ \E t \in TileRegionInputs :
         Query([op |-> "_coordinate_region_to_pixel_region", wrapper |-> TRUE, region |-> t],
               Outcome(_contour, Region(CoordinateRegionToPixelRegion(t[1], t[2], t[3], t[4]))))

PixelRegionToCoordinateRegionCall(limit) ==
    /\ calls < limit
    /\ \E r \in PixelRegionInputs :
         Query([op |-> "_pixel_region_to_coordinate_region", wrapper |-> TRUE, region |-> r],
               Outcome(_contour, Region(PixelRegionToCoordinateRegion(r[1], r[2], r[3], r[4]))))

\* a query through the wrapper, in tiles.  These queries leave the analyser
\* as it is, so the first query on each analyser shows all they can return.
NextWrapper ==
    \/ WrapperCountResources(1)
    \/ WrapperGetOrePatches(1)
    \/ WrapperFindLongestConsecutiveLine(1)
    \/ WrapperCalculateMinDistanceBetweenPatches(1)
    \/ WrapperCalculateMinDistanceBetweenPatchesWithinRegion(1)
    \/ CoordinateRegionToPixelRegionCall(1)
    \/ PixelRegionToCoordinateRegionCall(1)

SpecWrapper == InitWrapper /\ [][NextWrapper]_vars

(***************************************************************************)
(* OrePatch.__lt__ .. __ge__ and OrePatchCoordinateWrapper.__lt__ ..       *)
(* __ge__: both compare self.size with other.size.  max() and sorted() are *)
(* Python's: max keeps the first item that no later item is greater than,  *)
(* sorted is a stable sort that asks only for <.                           *)
(***************************************************************************)
\* a variant that looks at the resource type first
LessThanByTypeFirst(self, other) ==
    \/ self.resource_type # other.resource_type /\ self.resource_type = resource_types[1]
    \/ self.resource_type = other.resource_type /\ self.size < other.size

__lt__(self, other) == self.size < other.size
__le__(self, other) == self.size <= other.size
__gt__(self, other) == self.size > other.size
__ge__(self, other) == self.size >= other.size

Comparison(lt, le, gt, ge) == [kind |-> "comparison", lt |-> lt, le |-> le, gt |-> gt, ge |-> ge]
PatchList(list) == [kind |-> "list", list |-> list]
Patch(ore_patch) == [kind |-> "patch", patch |-> ore_patch]

RECURSIVE MaxFrom(_, _, _)
MaxFrom(list, i, best) ==
    IF i > Len(list) THEN best
    ELSE MaxFrom(list, i + 1, IF __gt__(list[i], best) THEN list[i] ELSE best)

PyMax(list) ==
    IF list = <<>> THEN Raised("ValueError") ELSE Patch(MaxFrom(list, 2, list[1]))

\* item put into a sorted list behind every item it is not less than
RECURSIVE Insert(_, _, _)
Insert(list, item, k) ==
    IF k > 0 /\ __lt__(item, list[k]) THEN Insert(list, item, k - 1)
    ELSE SubSeq(list, 1, k) \o <<item>> \o SubSeq(list, k + 1, Len(list))

RECURSIVE PySorted(_)
PySorted(list) ==
    IF list = <<>> THEN <<>>
    ELSE LET front == PySorted(SubSeq(list, 1, Len(list) - 1))
         IN Insert(front, list[Len(list)], Len(front))

\* the patch behind a handle, as the caller holds it
Held(h, wrapped) == IF wrapped THEN OrePatchCoordinateWrapper(PatchOf(h)) ELSE PatchOf(h)
HeldList(k, wrapped) ==
    [i \in DOMAIN ore_patches[k] |->
        IF wrapped THEN OrePatchCoordinateWrapper(ore_patches[k][i]) ELSE ore_patches[k][i]]

Compare(limit) ==
    /\ calls < limit
    /\ \E a \in Handles, b \in Handles, wrapped \in BOOLEAN :
         Query([op |-> "compare", wrapper |-> wrapped, ore_patch |-> a, other_ore_patch |-> b],
               Outcome(_contour,
                       Comparison(__lt__(Held(a, wrapped), Held(b, wrapped)),
                                  __le__(Held(a, wrapped), Held(b, wrapped)),
                                  __gt__(Held(a, wrapped), Held(b, wrapped)),
                                  __ge__(Held(a, wrapped), Held(b, wrapped)))))

MaxOfPatches(limit) ==
    /\ calls < limit
    /\ \E k \in Keys, wrapped \in BOOLEAN :
         Query([op |-> "max", wrapper |-> wrapped, resource_type |-> k],
               Outcome(_contour, PyMax(HeldList(k, wrapped))))

SortedPatches(limit) ==
    /\ calls < limit
    /\ \E k \in Keys, wrapped \in BOOLEAN :
         Query([op |-> "sorted", wrapper |-> wrapped, resource_type |-> k],
               Outcome(_contour, PatchList(PySorted(HeldList(k, wrapped)))))

\* patches compared, and lists of patches given to max() and sorted().  These
\* leave the analyser as it is, so the first one shows all they can return.
NextOrder ==
    \/ Compare(1)
    \/ MaxOfPatches(1)
    \/ SortedPatches(1)

SpecOrder == Init /\ [][NextOrder]_vars

\* _calculate_min_distance_between_contours is a static method: it is given
\* any two arrays of points, here the non-empty ones of up to MaxPoints points
ContourInputs ==
    {contour \in SUBSET ((0 .. MaxCoordinate) \X (0 .. MaxCoordinate)) :
        contour # {} /\ Cardinality(contour) <= MaxPoints}

CalculateMinDistanceBetweenContoursCall(limit) ==
    /\ calls < limit
    /\ \E contour \in ContourInputs, other_contour \in ContourInputs :
         Query([op |-> "_calculate_min_distance_between_contours", wrapper |-> FALSE,
                contour |-> contour, other_contour |-> other_contour],
               Outcome(_contour, CalculateMinDistanceBetweenContours(contour, other_contour)))

InitContours ==
    /\ NoPool
    /\ MapAnalyserInit(ConcentricImage(<<1, 1>>, [l \in 1 .. MaxLayers |-> 0]), <<1, 1>>,
                       TilesPerPixel)

\* the method reads its two arguments only
NextContours == CalculateMinDistanceBetweenContoursCall(1)

SpecContours == InitContours /\ [][NextContours]_vars

\* the patches of a region, asked for in pixels and in tiles.  The query
\* leaves the analyser as it is, so the first one shows all it can return.
NextRegion ==
    \/ GetOrePatches(1)
    \/ WrapperGetOrePatches(1)

SpecRegion == Init /\ [][NextRegion]_vars

(***************************************************************************)
(* ImageAnalyserPool.  A task is the number of its image in                *)
(* _tasks_parameters; callback[task] is what callback_analyser_function    *)
(* returns for the analyser of that image: None, or the row Some(task);    *)
(* or Failure, when _analyse raises an exception for that image.           *)
(***************************************************************************)
Tasks == 1 .. MaxTasks

\* no task has the number 0: the mark of an exception in _analyse
Failure == Some(0)

InitPool ==
    /\ MapAnalyserInit(ConcentricImage(<<1, 1>>, [l \in 1 .. MaxLayers |-> 0]), <<1, 1>>,
                       TilesPerPixel)
    /\ \E max_workers \in 1 .. MaxWorkers : ImageAnalyserPoolInit(max_workers)
    /\ callback \in [Tasks -> {None, Failure} \cup {Some(task) : task \in Tasks}]
    /\ \A task \in Tasks : callback[task] \in {None, Failure, Some(task)}

PoolCall == UNCHANGED <<analyser, _contour, _center_point, calls, call, result,
                        _max_workers, callback>>

PoolStep == PoolCall /\ UNCHANGED analyses

\* no call is under way on the pool: none was made yet, or analyse has
\* returned or was left by an exception
BetweenCalls == pc \in {"idle", "done", "raised"}

\* the futures, the progress bar and the loop position of a call of analyse
\* are gone with it
ForgetLastAnalyse ==
    /\ futures' = <<>>
    /\ progress' = <<>>
    /\ collected' = 0

\* add_folder_of_images_to_analyse: one task for each image of the folder
AddFolderOfImagesToAnalyse ==
    /\ BetweenCalls
    /\ \E images \in 1 .. MaxTasks - Len(_tasks_parameters) :
          _tasks_parameters' =
              [task \in 1 .. Len(_tasks_parameters) + images |-> task]
    /\ pc' = "idle"
    /\ ForgetLastAnalyse
    /\ UNCHANGED <<_tasks_results, multiprocess>>
    /\ PoolStep

\* analyse(callback_analyser_function, multiprocess) begins
Analyse ==
    /\ BetweenCalls
    /\ analyses < MaxAnalyses
    /\ analyses' = analyses + 1
    /\ \E m \in BOOLEAN :
          /\ multiprocess' = m
          /\ pc' = IF m THEN "submit" ELSE "sequential"
    /\ ForgetLastAnalyse
    /\ UNCHANGED <<_tasks_parameters, _tasks_results>>
    /\ PoolCall

\* executor.submit(_analyse, callback_analyser_function, parameters), for the
\* tasks in their order; after the last one the loop over the futures begins
Submit ==
    /\ pc = "submit"
    /\ IF Len(futures) < Len(_tasks_parameters)
       THEN futures' = Append(futures, "queued") /\ pc' = pc
       ELSE futures' = futures /\ pc' = "collect"
    /\ UNCHANGED <<_tasks_parameters, _tasks_results, multiprocess, progress, collected>>
    /\ PoolStep

Running == {task \in DOMAIN futures : futures[task] = "running"}
Queued == {task \in DOMAIN futures : futures[task] = "queued"}

\* a free worker process takes the task that has waited longest
WorkerStarts ==
    /\ Queued # {}
    /\ Cardinality(Running) < _max_workers
    /\ futures' = [futures EXCEPT ![SetMin(Queued)] = "running"]
    /\ UNCHANGED <<_tasks_parameters, _tasks_results, multiprocess, pc, progress, collected>>
    /\ PoolStep

\* a worker process returns from _analyse: the future is done and its done
\* callback updates the progress bar
WorkerFinishes ==
    /\ \E task \in Running :
          /\ futures' = [futures EXCEPT ![task] = "done"]
          /\ progress' = Append(progress, task)
    /\ UNCHANGED <<_tasks_parameters, _tasks_results, multiprocess, pc, collected>>
    /\ PoolStep

\* a variant that takes the futures as they complete
NextFutureAsCompleted ==
    IF collected < Len(progress) THEN progress[collected + 1] ELSE collected + 1

\* the future the loop "for future in futures" waits for
NextFuture == collected + 1

\* result = ...; if result is not None: self._tasks_results.append(result);
\* an exception of _analyse leaves the loop and analyse
AppendResult(task) ==
    IF callback[task] = Failure
    THEN /\ pc' = "raised"
         /\ UNCHANGED <<_tasks_results, collected>>
    ELSE /\ pc' = pc
         /\ _tasks_results' = IF callback[task] # None
                              THEN Append(_tasks_results, ValueOf(callback[task]))
                              ELSE _tasks_results
         /\ collected' = collected + 1

\* future.result() of the next future, once it is done; after the last one
\* the executor shuts down and analyse returns
Collect ==
    /\ pc = "collect"
    /\ IF collected < Len(futures)
       THEN /\ futures[NextFuture] = "done"
            /\ AppendResult(NextFuture)
       ELSE /\ UNCHANGED <<_tasks_results, collected>>
            /\ pc' = "done"
    /\ UNCHANGED <<_tasks_parameters, multiprocess, futures, progress>>
    /\ PoolStep

\* multiprocess = False: _analyse of the tasks one after the other
Sequential ==
    /\ pc = "sequential"
    /\ IF collected < Len(_tasks_parameters)
       THEN /\ AppendResult(collected + 1)
            /\ progress' = IF callback[collected + 1] = Failure THEN progress
                           ELSE Append(progress, collected + 1)
       ELSE /\ UNCHANGED <<_tasks_results, collected, progress>>
            /\ pc' = "done"
    /\ UNCHANGED <<_tasks_parameters, multiprocess, futures>>
    /\ PoolStep

NextPool ==
    \/ AddFolderOfImagesToAnalyse
    \/ Analyse
    \/ Submit
    \/ WorkerStarts
    \/ WorkerFinishes
    \/ Collect
    \/ Sequential

SpecPool == InitPool /\ [][NextPool]_vars

(***************************************************************************)
(* Properties.                                                             *)
(***************************************************************************)
Mask(arr) == {p \in DOMAIN arr : arr[p] # 0}

RECURSIVE SumOfSizes(_, _)
SumOfSizes(patches, n) ==
    IF n = 0 THEN 0 ELSE SumOfSizes(patches, n - 1) + patches[n].size

\* the patches of ore_patches[k], as handles
HandlesOfType(k) ==
    {h \in PatchHandles : k = "all" \/ PatchOf(h).resource_type = k}

IsPixelCall(op) == call.op = op /\ ~call.wrapper

\* C1: for every resource type, the masks of the patches of ore_patches[t]
\* are pairwise disjoint, their union is the mask of ore_patch_combined[t],
\* and their sizes add up to the size of ore_patch_combined[t].
PatchesPartitionCombined ==
    \A t \in ResourceTypes :
        LET patches == ore_patches[t]
        IN /\ \A i, j \in DOMAIN patches :
                 i # j => Mask(patches[i].resource_array)
                              \cap Mask(patches[j].resource_array) = {}
           /\ UNION {Mask(patches[i].resource_array) : i \in DOMAIN patches}
                 = Mask(ore_patch_combined[t].resource_array)
           /\ SumOfSizes(patches, Len(patches)) = ore_patch_combined[t].size

\* an image in which one resource type has several patches
SeveralPatchesOfOneType == \E t \in ResourceTypes : Len(ore_patches[t]) >= 2

\* the square of the separation of two pixels: touching pixels are 0 apart
SeparationSq(p, q) ==
    Max(Abs(p[1] - q[1]) - 1, 0) * Max(Abs(p[1] - q[1]) - 1, 0)
    + Max(Abs(p[2] - q[2]) - 1, 0) * Max(Abs(p[2] - q[2]) - 1, 0)

TrueSeparationSq(a, b) ==
    SetMin({SeparationSq(p, q) : p \in Mask(PatchOf(a).resource_array),
                                 q \in Mask(PatchOf(b).resource_array)})

\* C2: calculate_min_distance_between_patches(A, B), for A and B of
\* ore_patches["all"], returns the true minimum separation of the two
\* patches: the least separation of a set pixel of A and a set pixel of B.
MinDistanceIsTrueSeparation ==
    (/\ IsPixelCall("calculate_min_distance_between_patches")
     /\ call.other_ore_patch \in PatchHandles)
    => result = Float(TrueSeparationSq(call.ore_patch, call.other_ore_patch), 1)

\* what calculate_min_distance_between_patches(a, b) returns in this state
MinDistanceResults(a, b) == {o.result : o \in MinDistanceOutcomes(a, b, _contour)}

LeastOf(results) == Float(SetMin({r.sqrt_of : r \in results}), 1)

\* C3: calculate_min_distance_between_patches(A, ore_patch_combined[t]), for
\* a type t with at least one patch, returns the least of
\* calculate_min_distance_between_patches(A, p) over the patches p of
\* ore_patches[t].
CombinedDistanceIsLeastOverPatches ==
    (/\ IsPixelCall("calculate_min_distance_between_patches")
     /\ call.other_ore_patch \in CombinedHandles
     /\ HandlesOfType(call.other_ore_patch[2]) # {})
    => result = LeastOf(UNION {MinDistanceResults(call.ore_patch, p) :
                                  p \in HandlesOfType(call.other_ore_patch[2])})

Adjacent8(a, b) ==
    \E p \in Mask(PatchOf(a).resource_array), q \in Mask(PatchOf(b).resource_array) :
        Abs(p[1] - q[1]) <= 1 /\ Abs(p[2] - q[2]) <= 1

IsZero(r) == r.kind = "float" /\ (r.sqrt_of = 0 \/ r.times = 0)

\* C4: calculate_min_distance_between_patches(A, B) returns 0 for two
\* 8-adjacent patches A and B, in pixels and, through the wrapper, in tiles.
AdjacentPatchesAreAtDistanceZero ==
    (/\ call.op = "calculate_min_distance_between_patches"
     /\ call.other_ore_patch \in PatchHandles
     /\ Adjacent8(call.ore_patch, call.other_ore_patch))
    => IsZero(result)

\* the contour caches of a freshly constructed analyser
FreshCache == CHOOSE cache \in [Handles -> {None}] : TRUE

\* C5: queries do not change what later queries return: whatever queries
\* were made, calculate_min_distance_between_patches(A, B) returns what it
\* returns on the freshly constructed analyser.
QueriesDoNotChangeDistances ==
    \A a, b \in PatchHandles :
        MinDistanceResults(a, b) = {o.result : o \in MinDistanceOutcomes(a, b, FreshCache)}

\* the rectangle of the latest region query, in pixels
PixelRegionOfCall ==
    IF call.wrapper
    THEN CoordinateRegionToPixelRegion(call.region[1], call.region[2],
                                       call.region[3], call.region[4])
    ELSE call.region

\* a rectangle of at least one pixel within the image
IsRectangle(r) ==
    /\ 0 <= r[1] /\ r[1] < r[3] /\ r[3] <= dimensions[2]
    /\ 0 <= r[2] /\ r[2] < r[4] /\ r[4] <= dimensions[1]

InRectangle(r) == {p \in Indices(dimensions) : r[1] <= p[2] /\ p[2] < r[3]
                                               /\ r[2] <= p[1] /\ p[1] < r[4]}

MaskInRectangle(h, r) == Mask(PatchOf(h).resource_array) \cap InRectangle(r)

\* C6: within a rectangle that contains every set pixel of both patches,
\* calculate_min_distance_between_patches_within_region(A, B, rectangle)
\* returns what calculate_min_distance_between_patches(A, B) returns.
FullRegionDistanceIsUnrestrictedDistance ==
    (/\ IsPixelCall("calculate_min_distance_between_patches_within_region")
     /\ IsRectangle(call.region)
     /\ Mask(PatchOf(call.ore_patch).resource_array) \subseteq InRectangle(call.region)
     /\ Mask(PatchOf(call.other_ore_patch).resource_array)
            \subseteq InRectangle(call.region))
    => MinDistanceResults(call.ore_patch, call.other_ore_patch) = {result}

\* the points of the contour of a patch that lie in the rectangle
ClippedContour(h, r) ==
    {p \in UNION contours[h] : r[1] <= p[1] /\ p[1] < r[3] /\ r[2] <= p[2] /\ p[2] < r[4]}

\* C7: calculate_min_distance_between_patches_within_region returns
\* +infinity, and raises nothing, when both patches have set pixels in the
\* rectangle but the clipped contour of one of them is empty.
EmptyClippedContourGivesInfinity ==
    (/\ IsPixelCall("calculate_min_distance_between_patches_within_region")
     /\ IsRectangle(call.region)
     /\ MaskInRectangle(call.ore_patch, call.region) # {}
     /\ MaskInRectangle(call.other_ore_patch, call.region) # {}
     /\ \/ ClippedContour(call.ore_patch, call.region) = {}
        \/ ClippedContour(call.other_ore_patch, call.region) = {})
    => result = Infinity

APatchIsOutsideTheRectangle ==
    /\ call.op = "calculate_min_distance_between_patches_within_region"
    /\ IsRectangle(PixelRegionOfCall)
    /\ \/ MaskInRectangle(call.ore_patch, PixelRegionOfCall) = {}
       \/ MaskInRectangle(call.other_ore_patch, PixelRegionOfCall) = {}

\* C8: calculate_min_distance_between_patches_within_region returns
\* +infinity, and raises nothing, when one of the two patches has no set
\* pixel in the rectangle (a rectangle of at least one pixel within the
\* image); so does the wrapper, for the rectangle given in tiles.
NoPixelInRectangleGivesInfinity == APatchIsOutsideTheRectangle => result = Infinity

\* the wrapper was asked for the distance within a rectangle that one of the
\* patches is outside of, and so was the analyser behind it
PatchOutsideRectangleQueried == APatchIsOutsideTheRectangle /\ call.wrapper

\* the set pixels of ore_patch_combined[t] in the rectangle r
ResourceInRectangle(t, r) ==
    Mask(ore_patch_combined[t].resource_array) \cap InRectangle(r)

Rows(S) == {p[1] : p \in S}
Columns(S) == {p[2] : p \in S}

\* S is a solid block: every pixel of a range of rows and a range of columns
IsSolidBlock(S) ==
    /\ S # {}
    /\ S = Rows(S) \X Columns(S)
    /\ \A y \in Rows(S) : y = SetMin(Rows(S)) \/ y - 1 \in Rows(S)
    /\ \A x \in Columns(S) : x = SetMin(Columns(S)) \/ x - 1 \in Columns(S)

ShortSide(S) == Min(Cardinality(Rows(S)), Cardinality(Columns(S)))
LongSide(S) == Max(Cardinality(Rows(S)), Cardinality(Columns(S)))

\* C9: when the resource pixels in the search rectangle are one solid block
\* of T x L pixels, L >= T, find_longest_consecutive_line_of_resources with
\* thickness T and tolerance 0 returns the length L.
SolidBlockGivesItsLength ==
    (/\ IsPixelCall("find_longest_consecutive_line_of_resources")
     /\ call.tolerance = 0
     /\ IsRectangle(call.region)
     /\ IsSolidBlock(ResourceInRectangle(call.resource_type, call.region))
     /\ ShortSide(ResourceInRectangle(call.resource_type, call.region)) = call.thickness)
    => /\ result.kind = "line"
       /\ result.length = LongSide(ResourceInRectangle(call.resource_type, call.region))

\* a window of width by height pixels in the rectangle r holds at least
\* width x height - tolerance pixels of ore_patch_combined[t]
HasWindow(t, r, width, height, tolerance) ==
    \E x \in r[1] .. r[3] - width, y \in r[2] .. r[4] - height :
        BoxSum(ore_patch_combined[t].resource_array, y, x, height, width)
            >= width * height - tolerance

\* C10: the length find_longest_consecutive_line_of_resources returns is
\* the greatest: no horizontal or vertical window of the thickness and of a
\* greater length, within the search rectangle, holds at least
\* thickness x length - tolerance pixels of the resource.
ReturnedLengthIsMaximal ==
    (/\ IsPixelCall("find_longest_consecutive_line_of_resources")
     /\ IsRectangle(call.region)
     /\ result.kind = "line")
    => \A length \in result.length + 1 .. Max(call.region[3] - call.region[1],
                                              call.region[4] - call.region[2]) :
          /\ ~HasWindow(call.resource_type, call.region, length, call.thickness,
                        call.tolerance)
          /\ ~HasWindow(call.resource_type, call.region, call.thickness, length,
                        call.tolerance)

\* the rectangle inner lies within the rectangle outer
RegionWithin(inner, outer) ==
    /\ outer[1] <= inner[1] /\ inner[3] <= outer[3]
    /\ outer[2] <= inner[2] /\ inner[4] <= outer[4]

\* C11: when find_longest_consecutive_line_of_resources returns a length of
\* at least 1, the region it returns lies within the search rectangle, is
\* length x thickness (horizontal) or thickness x length (vertical) pixels,
\* and holds at least thickness x length - tolerance pixels of the resource.
ReturnedRegionIsAWindowOfTheResource ==
    (/\ IsPixelCall("find_longest_consecutive_line_of_resources")
     /\ IsRectangle(call.region)
     /\ result.kind = "line"
     /\ result.length >= 1)
    => /\ RegionWithin(result.region, call.region)
       /\ \/ /\ result.region[3] - result.region[1] = result.length
             /\ result.region[4] - result.region[2] = call.thickness
          \/ /\ result.region[3] - result.region[1] = call.thickness
             /\ result.region[4] - result.region[2] = result.length
       /\ Cardinality(ResourceInRectangle(call.resource_type, result.region))
              >= call.thickness * result.length - call.tolerance

IsCorridorCall == call.op = "find_longest_consecutive_line_of_resources"

\* the thickness and the tolerance of the latest corridor search, in pixels
PixelThicknessOfCall ==
    IF call.wrapper
    THEN MathCeil(OrDefault(call.thickness, tiles_per_pixel), tiles_per_pixel)
    ELSE call.thickness

PixelToleranceOfCall ==
    IF call.wrapper
    THEN MathCeil(call.tolerance, tiles_per_pixel * tiles_per_pixel)
    ELSE call.tolerance

\* the wrapper accepts the thickness of the latest corridor search
ThicknessAccepted ==
    call.wrapper => (call.thickness = None \/ ValueOf(call.thickness) > 0)

\* no window of length 1 in the search rectangle satisfies the constraint
NoWindowOfLengthOne ==
    /\ ~HasWindow(call.resource_type, PixelRegionOfCall, 1, PixelThicknessOfCall,
                  PixelToleranceOfCall)
    /\ ~HasWindow(call.resource_type, PixelRegionOfCall, PixelThicknessOfCall, 1,
                  PixelToleranceOfCall)

\* C12: when no window of length 1 satisfies the constraint,
\* find_longest_consecutive_line_of_resources returns the length 0 with no
\* region instead of raising, and so does the wrapper: (0, None).
NoWindowGivesZeroLength ==
    (/\ IsCorridorCall
     /\ ThicknessAccepted
     /\ IsRectangle(PixelRegionOfCall)
     /\ NoWindowOfLengthOne)
    => result = Line(0, NoRegion)

\* a region in tiles the wrapper is to accept: within the bounds of the image
\* and with its start before its end on both axes
ValidTileRegion(t) ==
    /\ min_x <= t[1] /\ t[1] < t[3] /\ t[3] <= max_x
    /\ min_y <= t[2] /\ t[2] < t[4] /\ t[4] <= max_y

IsWrapperRegionCall ==
    /\ call.op \in {"count_resources_in_region", "get_ore_patches_partially_in_region",
                    "find_longest_consecutive_line_of_resources",
                    "calculate_min_distance_between_patches_within_region"}
    /\ call.wrapper

\* C13: a wrapper query given a region with a corner out of the bounds of the
\* image, or with start >= end on an axis, raises an error: it returns no
\* result for the region.
InvalidTileRegionIsRejected ==
    (IsWrapperRegionCall /\ ~ValidTileRegion(call.region)) => result.kind = "raise"

\* the tile point -floor(width / 2) * scale, -floor(height / 2) * scale
HalfTheImage ==
    <<0 - (dimensions[2] \div 2) * tiles_per_pixel,
      0 - (dimensions[1] \div 2) * tiles_per_pixel>>

\* C14: whatever the width, the height and the scale, min_x and min_y are
\* -floor(width / 2) * scale and -floor(height / 2) * scale, and
\* _pixel_region_to_coordinate_region maps the pixel coordinate 0 to them.
OriginIsAtHalfTheImage ==
    /\ <<min_x, min_y>> = HalfTheImage
    /\ PixelRegionToCoordinateRegion(0, 0, 0, 0) = HalfTheImage \o HalfTheImage

IsWrapperCall(op) == call.op = op /\ call.wrapper

\* the tiles of pixel p and the tiles of the region t have a tile in common
PixelOverlaps(p, t) ==
    /\ min_x + p[2] * tiles_per_pixel < t[3] /\ t[1] < min_x + (p[2] + 1) * tiles_per_pixel
    /\ min_y + p[1] * tiles_per_pixel < t[4] /\ t[2] < min_y + (p[1] + 1) * tiles_per_pixel

\* the smallest pixel-aligned region in tiles that encloses the region of the
\* latest wrapper query
EnclosingTileRegionOfCall ==
    PixelRegionToCoordinateRegion(PixelRegionOfCall[1], PixelRegionOfCall[2],
                                  PixelRegionOfCall[3], PixelRegionOfCall[4])

\* C15: for a region in tiles within the bounds of the image, with start <
\* end on both axes, _coordinate_region_to_pixel_region rounds the start down
\* and the end up to pixel boundaries: the pixel region is within the image
\* and holds exactly the pixels that the region in tiles covers, wholly or
\* partly; and count_resources_in_region counts the resource of those pixels,
\* as it does for the smallest enclosing pixel-aligned region.
RegionConversionExpandsToPixels ==
    (IsWrapperCall("count_resources_in_region") /\ ValidTileRegion(call.region))
    => /\ EnclosingTileRegionOfCall[1] <= call.region[1]
       /\ call.region[1] < EnclosingTileRegionOfCall[1] + tiles_per_pixel
       /\ EnclosingTileRegionOfCall[2] <= call.region[2]
       /\ call.region[2] < EnclosingTileRegionOfCall[2] + tiles_per_pixel
       /\ EnclosingTileRegionOfCall[3] - tiles_per_pixel < call.region[3]
       /\ call.region[3] <= EnclosingTileRegionOfCall[3]
       /\ EnclosingTileRegionOfCall[4] - tiles_per_pixel < call.region[4]
       /\ call.region[4] <= EnclosingTileRegionOfCall[4]
       /\ IsRectangle(PixelRegionOfCall)
       /\ InRectangle(PixelRegionOfCall)
              = {p \in Indices(dimensions) : PixelOverlaps(p, call.region)}
       /\ result = Count(tiles_per_pixel * tiles_per_pixel
                         * Cardinality({p \in Mask(ore_patch_combined[call.resource_type].resource_array) :
                                           PixelOverlaps(p, call.region)}))
       /\ result = WrapperCountResourcesInRegion(
                       EnclosingTileRegionOfCall[1], EnclosingTileRegionOfCall[2],
                       EnclosingTileRegionOfCall[3], EnclosingTileRegionOfCall[4],
                       call.resource_type)

\* resources were counted in a region that aligns with pixels at neither
\* corner, starts at negative coordinates, and covers a resource pixel only
\* partly
CountedInUnalignedRegion ==
    /\ IsWrapperCall("count_resources_in_region")
    /\ ValidTileRegion(call.region)
    /\ tiles_per_pixel > 1
    /\ call.region[1] < 0
    /\ call.region[1] # EnclosingTileRegionOfCall[1]
    /\ call.region[3] # EnclosingTileRegionOfCall[3]
    /\ result.value > 0
    /\ result.value > Cardinality({tile \in (call.region[1] .. call.region[3] - 1)
                                            \X (call.region[2] .. call.region[4] - 1) : TRUE})

\* the region in tiles t has its corners on pixel boundaries
IsPixelAligned(t) ==
    /\ (t[1] - min_x) % tiles_per_pixel = 0 /\ (t[3] - min_x) % tiles_per_pixel = 0
    /\ (t[2] - min_y) % tiles_per_pixel = 0 /\ (t[4] - min_y) % tiles_per_pixel = 0

\* C16: a region in pixels converted to tiles and back contains the region;
\* a pixel-aligned region in tiles converted to pixels and back is the same
\* region, so that converting it again changes nothing.
RegionRoundTrip ==
    /\ IsWrapperCall("_pixel_region_to_coordinate_region")
       => RegionWithin(call.region,
                       CoordinateRegionToPixelRegion(result.region[1], result.region[2],
                                                     result.region[3], result.region[4]))
    /\ (IsWrapperCall("_coordinate_region_to_pixel_region") /\ IsPixelAligned(call.region))
       => /\ PixelRegionToCoordinateRegion(result.region[1], result.region[2],
                                           result.region[3], result.region[4]) = call.region
          /\ CoordinateRegionToPixelRegion(call.region[1], call.region[2],
                                           call.region[3], call.region[4]) = result.region

\* a region in pixels was converted to tiles at a scale above 1, in an image
\* wider than high, and the tiles start at negative coordinates
PixelRegionConverted ==
    /\ IsWrapperCall("_pixel_region_to_coordinate_region")
    /\ tiles_per_pixel > 1
    /\ dimensions[2] > dimensions[1]
    /\ call.region[1] < call.region[3] /\ call.region[2] < call.region[4]
    /\ result.region[1] < 0

\* the valid regions in tiles that contain the region t
ValidTileRegionsAround(t) ==
    {u \in TileRegionInputs : ValidTileRegion(u) /\ RegionWithin(t, u)}

\* C17: for valid regions in tiles R1 within R2 and every resource type,
\* "all" included, the wrapper's count_resources_in_region of R2 is at least
\* that of R1.
CountGrowsWithTheRegion ==
    (IsWrapperCall("count_resources_in_region") /\ ValidTileRegion(call.region))
    => \A u \in ValidTileRegionsAround(call.region) :
          WrapperCountResourcesInRegion(u[1], u[2], u[3], u[4], call.resource_type).value
              >= result.value

\* "all" was counted in a valid region that holds some resource, and a valid
\* region around it holds more
CountedWithinALargerRegion ==
    /\ IsWrapperCall("count_resources_in_region")
    /\ ValidTileRegion(call.region)
    /\ call.resource_type = "all"
    /\ result.value > 0
    /\ \E u \in ValidTileRegionsAround(call.region) :
          WrapperCountResourcesInRegion(u[1], u[2], u[3], u[4], "all").value > result.value

\* what the distance queries in pixels return on a fresh analyser
FreshMinDistanceResults(a, b) ==
    {o.result : o \in MinDistanceOutcomes(a, b, FreshCache)}

WithinRegionResults(a, b, r) ==
    {o.result : o \in WithinRegionOutcomes(a, b, r[1], r[2], r[3], r[4], FreshCache)}

\* the result r is the result of the pixel-space distance query px, times
\* the scale
IsScaledDistance(r, px) ==
    IF px.kind = "float"
    THEN r.kind = "float" /\ r.sqrt_of = px.sqrt_of /\ r.times = px.times * tiles_per_pixel
    ELSE r = px

\* the result r is the result of the pixel-space corridor search px, rescaled
IsScaledLine(r, px) ==
    IF px.kind = "line"
    THEN /\ r.kind = "line"
         /\ r.length = px.length * tiles_per_pixel
         /\ r.region = <<px.region[1] * tiles_per_pixel + min_x,
                         px.region[2] * tiles_per_pixel + min_y,
                         px.region[3] * tiles_per_pixel + min_x,
                         px.region[4] * tiles_per_pixel + min_y>>
    ELSE r = px

\* C18: what the wrapper returns is what the analyser returns for the region
\* in pixels, rescaled: the size of a patch and count_resources_in_region are
\* scale^2 times the pixels, the length of the corridor and the two minimum
\* distances are scale times the value in pixels, and the region of the
\* corridor is the region in pixels mapped to tiles.
WrapperResultsAreRescaled ==
    /\ IsWrapperCall("count_resources_in_region")
       => result.value = tiles_per_pixel * tiles_per_pixel
                         * CountResourcesInRegion(PixelRegionOfCall[1], PixelRegionOfCall[2],
                                                  PixelRegionOfCall[3], PixelRegionOfCall[4],
                                                  call.resource_type).value
    /\ IsWrapperCall("get_ore_patches_partially_in_region")
       => LET px == GetOrePatchesPartiallyInRegion(PixelRegionOfCall[1], PixelRegionOfCall[2],
                                                   PixelRegionOfCall[3], PixelRegionOfCall[4])
          IN \A k \in Keys :
                /\ Len(result.patches[k]) = Len(px.patches[k])
                /\ \A i \in DOMAIN px.patches[k] :
                      /\ result.patches[k][i].wrapped_ore_patch = px.patches[k][i]
                      /\ result.patches[k][i].size
                             = tiles_per_pixel * tiles_per_pixel * px.patches[k][i].size
    /\ (IsWrapperCall("find_longest_consecutive_line_of_resources") /\ ThicknessAccepted)
       => IsScaledLine(result,
                       FindLongestConsecutiveLineOfResources(
                           call.resource_type, PixelThicknessOfCall, PixelToleranceOfCall,
                           PixelRegionOfCall[1], PixelRegionOfCall[2],
                           PixelRegionOfCall[3], PixelRegionOfCall[4]))
    /\ IsWrapperCall("calculate_min_distance_between_patches")
       => \E px \in FreshMinDistanceResults(call.ore_patch, call.other_ore_patch) :
             IsScaledDistance(result, px)
    /\ IsWrapperCall("calculate_min_distance_between_patches_within_region")
       => \E px \in WithinRegionResults(call.ore_patch, call.other_ore_patch, PixelRegionOfCall) :
             IsScaledDistance(result, px)

\* the wrapper returned a distance above 0 between two patches, at a scale
\* above 1
ScaledDistanceReturned ==
    /\ IsWrapperCall("calculate_min_distance_between_patches")
    /\ tiles_per_pixel > 1
    /\ result.kind = "float"
    /\ result.sqrt_of > 0
    /\ result.times = tiles_per_pixel

\* the tiles of the region in tiles t, and those of them that hold the
\* resource k (t is pixel-aligned: a tile holds what its pixel holds)
TilesOf(t) == (t[3] - t[1]) * (t[4] - t[2])

ResourceTilesIn(k, t) ==
    tiles_per_pixel * tiles_per_pixel
    * Cardinality(ResourceInRectangle(k, CoordinateRegionToPixelRegion(t[1], t[2], t[3], t[4])))

\* C19: the corridor the wrapper's find_longest_consecutive_line_of_resources
\* returns misses at most tolerance tiles of the resource: the tiles of the
\* region less the resource tiles in it are at most the tolerance given in
\* tiles, whatever the scale.
CorridorMissesAtMostToleranceTiles ==
    (/\ IsWrapperCall("find_longest_consecutive_line_of_resources")
     /\ ValidTileRegion(call.region)
     /\ result.kind = "line"
     /\ result.region # NoRegion)
    => TilesOf(result.region) - ResourceTilesIn(call.resource_type, result.region)
           <= call.tolerance

\* the callback returned a row for the task
HasRow(task) == callback[task] \notin {None, Failure}

\* C20: when the first analyse has returned, _tasks_results holds the rows the callback
\* returned, one for each task with a row and none for the tasks whose
\* callback returned None, in the order of the tasks; with several processes
\* as with one, in whatever order the workers finished.
ResultsAreTheRowsInTaskOrder ==
    (pc = "done" /\ analyses = 1) => _tasks_results = SelectSeq(_tasks_parameters, HasRow)

\* analyse has returned after workers finished a later task before an
\* earlier one, the callback returned rows for both and None for another task
WorkersFinishedOutOfOrder ==
    /\ pc = "done"
    /\ multiprocess
    /\ \E i, j \in DOMAIN progress :
          i < j /\ progress[i] > progress[j] /\ HasRow(progress[i]) /\ HasRow(progress[j])
    /\ \E task \in DOMAIN futures : ~HasRow(task)

\* analyse is over: it returned, or an exception left it
AnalyseIsOver == pc \in {"done", "raised"}

\* C21: an exception in the analysis of one image does not abort the batch:
\* when the first analyse is over, _tasks_results holds the rows of all the other
\* tasks, with one process as with several.
FailureDoesNotAbortTheBatch ==
    (AnalyseIsOver /\ analyses = 1) => _tasks_results = SelectSeq(_tasks_parameters, HasRow)

\* C22: the contour and the centre of a patch are computed once: a stored
\* value is never replaced, so every later access returns what the first
\* access returned
StoredValuesAreKept ==
    [][\A h \in Handles :
          /\ _contour[h] # None => _contour'[h] = _contour[h]
          /\ _center_point[h] # None => _center_point'[h] = _center_point[h]]_vars

IsCenterPointCall == call.op = "center_point"

\* C23: the centre of an empty patch is a ZeroDivisionError, directly and
\* through the wrapper, and the patch's _center_point stays None
CenterOfEmptyPatchFails ==
    (IsCenterPointCall /\ PatchOf(call.ore_patch).size = 0)
        => /\ result = Raised("ZeroDivisionError")
           /\ _center_point[call.ore_patch] = None

CenterOfEmptyPatchRequestedThroughWrapper ==
    /\ IsCenterPointCall
    /\ call.wrapper
    /\ calls = MaxSessionCalls
    /\ PatchOf(call.ore_patch).size = 0
    /\ \E h \in Handles : _center_point[h] # None

IsRegionFilterCall == call.op = "get_ore_patches_partially_in_region"

\* the region of the latest query is within the image, start before end
RegionOfCallIsValid ==
    IF call.wrapper THEN ValidTileRegion(call.region) ELSE IsRectangle(call.region)

\* the patch has a set pixel inside the region of the latest query
HasPixelInRegionOfCall(ore_patch) ==
    \E p \in Mask(ore_patch.resource_array) :
        IF call.wrapper THEN PixelOverlaps(p, call.region)
        ELSE p \in InRectangle(call.region)

\* the patches returned by the latest query, unwrapped
PatchesFound ==
    [k \in Keys |->
        [i \in DOMAIN result.patches[k] |->
            IF call.wrapper THEN result.patches[k][i].wrapped_ore_patch
            ELSE result.patches[k][i]]]

RECURSIVE InCatalogueOrder(_, _)
InCatalogueOrder(by_type, n) ==
    IF n = 0 THEN <<>> ELSE InCatalogueOrder(by_type, n - 1) \o by_type[resource_types[n]]

\* C24: get_ore_patches_partially_in_region returns, type by type, the
\* patches of ore_patches[type] with a set pixel inside the region, in their
\* order; "all" is these lists one after the other in the order of the
\* resource table, each patch once; ore_patches is what construction made
RegionFilterKeepsPatchesInOrder ==
    (IsRegionFilterCall /\ RegionOfCallIsValid)
    => /\ \A t \in ResourceTypes :
             PatchesFound[t] = SelectSeq(ore_patches[t], HasPixelInRegionOfCall)
       /\ PatchesFound["all"] = InCatalogueOrder(PatchesFound, Len(resource_types))
       /\ \A i, j \in DOMAIN PatchesFound["all"] :
             i # j => PatchesFound["all"][i] # PatchesFound["all"][j]
       /\ ore_patches = FindAllOrePatches(ore_patch_combined)

\* a region that holds a patch of each type and leaves a patch of the image out
RegionFilterLeftAPatchOut ==
    /\ IsRegionFilterCall
    /\ RegionOfCallIsValid
    /\ \A t \in ResourceTypes : Len(PatchesFound[t]) > 0
    /\ Len(PatchesFound["all"]) < Len(ore_patches["all"])

RECURSIVE SumOfLengths(_, _)
SumOfLengths(by_type, n) ==
    IF n = 0 THEN 0 ELSE SumOfLengths(by_type, n - 1) + Len(by_type[resource_types[n]])

\* C25: ore_patches["all"] is the lists of the types one after the other in
\* the order of the resource table: as long as all of them together, each
\* patch of the type it was found for and made of pixels of that colour only
AllIsThePerTypeListsInOrder ==
    /\ ore_patches["all"] = InCatalogueOrder(ore_patches, Len(resource_types))
    /\ Len(ore_patches["all"]) = SumOfLengths(ore_patches, Len(resource_types))
    /\ \A i \in DOMAIN ore_patches["all"] :
          LET ore_patch == ore_patches["all"][i]
          IN /\ ore_patch.resource_type \in ResourceTypes
             /\ \E j \in DOMAIN ore_patches[ore_patch.resource_type] :
                   ore_patches[ore_patch.resource_type][j] = ore_patch
             /\ \A p \in Mask(ore_patch.resource_array) :
                   image[p] = resource_colors[ore_patch.resource_type]

\* two patches of different types touch
PatchesOfDifferentTypesTouch ==
    \E i, j \in DOMAIN ore_patches["all"] :
        /\ ore_patches["all"][i].resource_type # ore_patches["all"][j].resource_type
        /\ \E p \in Mask(ore_patches["all"][i].resource_array) :
              Neighbours8(p) \cap Mask(ore_patches["all"][j].resource_array) # {}

\* the number of types whose combined mask has pixel p set
RECURSIVE TypesSetAt(_, _)
TypesSetAt(p, n) ==
    IF n = 0 THEN 0
    ELSE TypesSetAt(p, n - 1) + ore_patch_combined[resource_types[n]].resource_array[p]

RECURSIVE SumOfCombinedSizes(_)
SumOfCombinedSizes(n) ==
    IF n = 0 THEN 0 ELSE SumOfCombinedSizes(n - 1) + ore_patch_combined[resource_types[n]].size

\* C26: the resource colours differ, so the masks of the types are binary and
\* no pixel is set in two of them; the mask of "all" is their sum pixel by
\* pixel, binary as well, their union, and as large as all of them together;
\* a pixel of no resource colour is set in no mask
CombinedMasksAreBinaryAndDisjoint ==
    /\ \A t \in Keys, p \in Indices(dimensions) :
          ore_patch_combined[t].resource_array[p] \in {0, 1}
    /\ \A p \in Indices(dimensions) :
          /\ TypesSetAt(p, Len(resource_types)) <= 1
          /\ ore_patch_combined["all"].resource_array[p] = TypesSetAt(p, Len(resource_types))
          /\ (\A t \in ResourceTypes : image[p] # resource_colors[t])
                => \A t \in Keys : ore_patch_combined[t].resource_array[p] = 0
    /\ \A t \in ResourceTypes :
          Mask(ore_patch_combined[t].resource_array) = {p \in Indices(dimensions) : image[p] = resource_colors[t]}
    /\ Mask(ore_patch_combined["all"].resource_array)
          = UNION {Mask(ore_patch_combined[t].resource_array) : t \in ResourceTypes}
    /\ ore_patch_combined["all"].size = SumOfCombinedSizes(Len(resource_types))

\* the centre of "all" was read on an image that shows every resource and
\* some background
CentreOfAllResourcesRead ==
    /\ IsCenterPointCall
    /\ call.ore_patch = <<"combined", "all">>
    /\ result.kind = "point"
    /\ \A colour \in Colours : \E p \in Indices(dimensions) : image[p] = colour

\* the size of the patch behind h as the latest call saw it: in pixels, or in
\* tiles through a wrapper
SizeSeenByCall(h) ==
    IF call.wrapper THEN PatchOf(h).size * tiles_per_pixel * tiles_per_pixel
    ELSE PatchOf(h).size

ListOfCall == HeldList(call.resource_type, call.wrapper)

\* how often item occurs in list
Occurrences(list, item) == Cardinality({i \in DOMAIN list : list[i] = item})

\* C27: patches compare as their sizes do, whatever their types, directly
\* and through the wrapper; so max() of a list of patches is a patch of the
\* list that none exceeds in size, and sorted() is the list rearranged with
\* sizes that never decrease
PatchesAreOrderedBySize ==
    /\ call.op = "compare"
          => /\ result.lt <=> SizeSeenByCall(call.ore_patch) < SizeSeenByCall(call.other_ore_patch)
             /\ result.le <=> SizeSeenByCall(call.ore_patch) <= SizeSeenByCall(call.other_ore_patch)
             /\ result.gt <=> SizeSeenByCall(call.ore_patch) > SizeSeenByCall(call.other_ore_patch)
             /\ result.ge <=> SizeSeenByCall(call.ore_patch) >= SizeSeenByCall(call.other_ore_patch)
    /\ (call.op = "max" /\ ListOfCall # <<>>)
          => /\ result.kind = "patch"
             /\ \E i \in DOMAIN ListOfCall : ListOfCall[i] = result.patch
             /\ \A i \in DOMAIN ListOfCall : ListOfCall[i].size <= result.patch.size
    /\ call.op = "sorted"
          => /\ Len(result.list) = Len(ListOfCall)
             /\ \A i \in DOMAIN ListOfCall :
                   Occurrences(result.list, ListOfCall[i]) = Occurrences(ListOfCall, ListOfCall[i])
             /\ \A i, j \in DOMAIN result.list :
                   i < j => result.list[i].size <= result.list[j].size

\* sorted() moved a patch of one type in front of a patch of another type
SortedMovedPatchesOfDifferentTypes ==
    /\ call.op = "sorted"
    /\ call.wrapper
    /\ result.list # ListOfCall
    /\ \E i \in DOMAIN ListOfCall :
          /\ i < Len(ListOfCall)
          /\ ListOfCall[i].resource_type # ListOfCall[i + 1].resource_type
          /\ ListOfCall[i].size > ListOfCall[i + 1].size

IsContoursCall == call.op = "_calculate_min_distance_between_contours"

\* the free space between two points on one axis
FreeSpace(a, b) == Max(Abs(a - b) - 1, 0)

FreeSpaceSq(p, q) ==
    FreeSpace(p[1], q[1]) * FreeSpace(p[1], q[1]) + FreeSpace(p[2], q[2]) * FreeSpace(p[2], q[2])

\* C28: for two non-empty contours _calculate_min_distance_between_contours
\* returns the square root of the least, over the pairs of a point of each,
\* of max(|dx| - 1, 0)^2 + max(|dy| - 1, 0)^2
ContourDistanceIsLeastFreeSpace ==
    IsContoursCall
    => /\ result.kind = "float"
       /\ result.times = 1
       /\ \E p \in call.contour, q \in call.other_contour : result.sqrt_of = FreeSpaceSq(p, q)
       /\ \A p \in call.contour, q \in call.other_contour : result.sqrt_of <= FreeSpaceSq(p, q)

\* the nearest points are in one line, with one point between them
NearestPointsInLineOneApart ==
    /\ IsContoursCall
    /\ Cardinality(call.contour) > 1
    /\ Cardinality(call.other_contour) > 1
    /\ result = Float(1, 1)
    /\ \E p \in call.contour, q \in call.other_contour :
          p[1] = q[1] /\ Abs(p[2] - q[2]) = 2

\* the candidate lengths of the passes of the latest corridor search in pixels
CandidateLengthsOfCall ==
    LET r == call.region
    IN CandidateLengths(SubArray(ore_patch_combined[call.resource_type].resource_array,
                                 dimensions, r[1], r[2], r[3], r[4]),
                        r[3] - r[1], r[4] - r[2], call.thickness, call.tolerance,
                        Max(r[3] - r[1], r[4] - r[2]))

\* C29: over a non-empty rectangle, with a thickness of 1 or more and a
\* tolerance of 0 or more, the loop of find_longest_consecutive_line_of_resources
\* ends with a result and not with an error, after at most max(width, height)
\* passes whose candidate lengths decrease strictly and are never negative
ShrinkAndSearchEndsWithAResult ==
    (/\ IsPixelCall("find_longest_consecutive_line_of_resources")
     /\ IsRectangle(call.region)
     /\ call.thickness >= 1
     /\ call.tolerance >= 0)
    => /\ result.kind = "line"
       /\ \A i \in DOMAIN CandidateLengthsOfCall :
             /\ CandidateLengthsOfCall[i] >= 0
             /\ i > 1 => CandidateLengthsOfCall[i] < CandidateLengthsOfCall[i - 1]
       /\ Len(CandidateLengthsOfCall)
             <= Max(call.region[3] - call.region[1], call.region[4] - call.region[2])

\* the rows of the task in _tasks_results
RowsOf(task) == {i \in DOMAIN _tasks_results : _tasks_results[i] = task}

\* C30: whatever calls of add_folder_of_images_to_analyse and analyse were
\* made on a pool, _tasks_results holds at most one row for each task and so
\* is no longer than _tasks_parameters
EachTaskHasAtMostOneRow ==
    /\ \A task \in DOMAIN _tasks_parameters : Cardinality(RowsOf(task)) <= 1
    /\ Len(_tasks_results) <= Len(_tasks_parameters)

====
